---- MODULE Spec2Model ----
(***************************************************************************)
(* Polygon overlay of geopandas/tools/overlay.py as a state machine.       *)
(*                                                                         *)
(* A geometry is a set of unit cells of a small grid (its area is the      *)
(* number of cells) with a validity flag; the geometry kernel's            *)
(* intersection, difference and buffer(0) act on the cells.  A data frame  *)
(* is a record of column names, row labels, rows (one value per column)    *)
(* and a reference frame.  Python objects live in a heap, so that the      *)
(* difference between a copy and an alias is part of the model.            *)
(***************************************************************************)
EXTENDS Integers, Sequences, FiniteSets, TLC

\* Side of the square grid the input geometries are drawn from.
GridN == 3
\* Largest number of features of one input.
MaxFeat == 2

\* np.nan, the null of an attribute column (attribute values are positive).
NaN == -1

-----------------------------------------------------------------------------
(* Sequences *)

Range(s) == {s[i] : i \in DOMAIN s}

\* The positions 1..n that satisfy P, ascending.
Where(n, P(_)) ==
    LET F[i \in 0..n] ==
            IF i = 0 THEN <<>>
            ELSE IF P(i) THEN Append(F[i - 1], i) ELSE F[i - 1]
    IN  F[n]

\* s[idxs[1]], s[idxs[2]], ...
Pick(s, idxs) == [k \in 1..Len(idxs) |-> s[idxs[k]]]

\* F(s[1]) \o F(s[2]) \o ...
FlatMap(s, F(_)) ==
    LET G[i \in 0..Len(s)] == IF i = 0 THEN <<>> ELSE G[i - 1] \o F(s[i])
    IN  G[Len(s)]

\* list.remove(x): the first occurrence of x goes.
ListRemove(s, x) ==
    LET first == CHOOSE i \in 1..Len(s) : s[i] = x /\ \A j \in 1..(i - 1) : s[j] # x
    IN  [k \in 1..(Len(s) - 1) |-> IF k < first THEN s[k] ELSE s[k + 1]]

SetMin(S) == CHOOSE m \in S : \A n \in S : m <= n
SetMax(S) == CHOOSE m \in S : \A n \in S : m >= n

-----------------------------------------------------------------------------
(* The geometry kernel (shapely), on cell sets *)

Geom(c, v) == [cells |-> c, valid |-> v, isnull |-> FALSE]

\* The missing value of a geometry column.
NoGeom == [cells |-> {}, valid |-> FALSE, isnull |-> TRUE]

\* The axis-aligned rectangle with corners (x, y) and (x + w, y + h).
Rect(x, y, w, h) == {<<i, j>> : i \in x..(x + w - 1), j \in y..(y + h - 1)}

\* The axis-aligned square with corners (k, k) and (k + s, k + s).
Sq(k, s) == Rect(k, k, s, s)

\* geom.buffer(0): the zero-width-buffer repair.
Buffer0(g) == Geom(g.cells, TRUE)

\* GeomIntersection without the clip: the first geometry as it is.
GeomIntersectionUnclipped(a, b) == Buffer0(a)

\* a.intersection(b).buffer(0): what two geometries share with positive area.
GeomIntersection(a, b) == Buffer0(Geom(a.cells \cap b.cells, a.valid /\ b.valid))

\* x.difference(y).buffer(0)
GeomDifference(a, b) == Buffer0(Geom(a.cells \ b.cells, a.valid /\ b.valid))

IsEmpty(g) == g.cells = {}

Area(g) == Cardinality(g.cells)

\* geom.bounds: (minx, miny, maxx, maxy); the cell <<x, y>> covers [x, x+1] x [y, y+1].
Bounds(g) ==
    LET xs == {c[1] : c \in g.cells}
        ys == {c[2] : c \in g.cells}
    IN  <<SetMin(xs), SetMin(ys), SetMax(xs) + 1, SetMax(ys) + 1>>

\* The rtree test: closed boxes, so boxes that only touch do intersect.
BoxesIntersect(p, q) ==
    /\ p[1] <= q[3] /\ q[1] <= p[3]
    /\ p[2] <= q[4] /\ q[2] <= p[4]

\* reduce(lambda x, y: x.difference(y).buffer(0), [g] + others)
ReduceDifference(g, others) ==
    LET F[i \in 0..Len(others)] ==
            IF i = 0 THEN g ELSE GeomDifference(F[i - 1], others[i])
    IN  F[Len(others)]

\* Reprojection of a geometry between two different reference frames: the
\* coordinates change (here the x axis is mirrored), the shape does not.
Transform(g, from, to) ==
    IF from = to THEN g
    ELSE Geom({<<GridN - 1 - c[1], c[2]>> : c \in g.cells}, g.valid)

-----------------------------------------------------------------------------
(* Data frames (pandas / GeoDataFrame) *)

DataFrame(cols, index, rows, crs) ==
    [py |-> "GeoDataFrame", cols |-> cols, index |-> index, rows |-> rows, crs |-> crs]

\* Python's None, in the shape of a frame.
None == [py |-> "None", cols |-> <<>>, index |-> <<>>, rows |-> <<>>, crs |-> ""]

NRows(df) == Len(df.rows)

\* range(n) as row labels: 0, 1, ..., n-1.
RangeIndex(n) == [i \in 1..n |-> i - 1]

\* The positions of the columns called name.
ColsNamed(df, name) == Where(Len(df.cols), LAMBDA i : df.cols[i] = name)

HasCol(df, name) == name \in Range(df.cols)

\* df[name] as a sequence of values (the first column of that name).
GetCol(df, name) ==
    LET p == ColsNamed(df, name)[1]
    IN  [i \in 1..NRows(df) |-> df.rows[i][p]]

\* df[name] = vals: replaces the column, or appends it.
SetCol(df, name, vals) ==
    IF HasCol(df, name)
    THEN LET p == ColsNamed(df, name)[1]
         IN  [df EXCEPT !.rows = [i \in 1..NRows(df) |-> [df.rows[i] EXCEPT ![p] = vals[i]]]]
    ELSE [df EXCEPT !.cols = Append(df.cols, name),
                    !.rows = [i \in 1..NRows(df) |-> Append(df.rows[i], vals[i])]]

\* df[names]: the columns selected by name, in the order of names.
SelectCols(df, names) ==
    LET ps == FlatMap(names, LAMBDA n : ColsNamed(df, n))
    IN  [df EXCEPT !.cols = Pick(df.cols, ps),
                   !.rows = [i \in 1..NRows(df) |-> Pick(df.rows[i], ps)]]

\* df.drop(names, axis=1)
DropCols(df, names) ==
    LET ps == Where(Len(df.cols), LAMBDA i : df.cols[i] \notin names)
    IN  [df EXCEPT !.cols = Pick(df.cols, ps),
                   !.rows = [i \in 1..NRows(df) |-> Pick(df.rows[i], ps)]]

\* df.rename(columns={old: new})
RenameCol(df, old, new) ==
    [df EXCEPT !.cols = [i \in 1..Len(df.cols) |-> IF df.cols[i] = old THEN new ELSE df.cols[i]]]

\* df.take(ps): the rows at the (1-based) positions ps, labels kept.
TakeRows(df, ps) ==
    [df EXCEPT !.index = Pick(df.index, ps), !.rows = Pick(df.rows, ps)]

\* DropEmpty without the filter.
DropEmptyKeepsAll(df) == df

\* df.loc[df.geometry.is_empty == False]: labels are kept, not renumbered.
DropEmpty(df) ==
    LET g == GetCol(df, "geometry")
    IN  TakeRows(df, Where(NRows(df), LAMBDA i : ~IsEmpty(g[i])))

\* df.reset_index(drop=True)
ResetIndex(df) == [df EXCEPT !.index = RangeIndex(NRows(df))]

\* df.sindex.intersection(box): the positions (0-based) of the rows whose
\* bounding box meets box.
SindexQuery(df, box) ==
    LET g == GetCol(df, "geometry")
        hits == Where(NRows(df), LAMBDA i : BoxesIntersect(Bounds(g[i]), box))
    IN  [k \in 1..Len(hits) |-> hits[k] - 1]

\* df.iloc[positions].geometry
IlocGeometry(df, positions) ==
    LET g == GetCol(df, "geometry")
    IN  [k \in 1..Len(positions) |-> g[positions[k] + 1]]

\* The positions of the rows labelled label.
RowsLabelled(df, label) == Where(NRows(df), LAMBDA i : df.index[i] = label)

\* The null a merge or a concatenation fills a missing cell of a column with.
NullFor(name) == IF name = "geometry" THEN NoGeom ELSE NaN

\* The names pandas' merge gives the columns of the two sides: a name on both
\* sides (join keys aside) takes the side's suffix.
SuffixedCols(cols, others, keys, suffix) ==
    [i \in 1..Len(cols) |->
        IF cols[i] \in Range(others) /\ cols[i] \notin keys
        THEN cols[i] \o suffix ELSE cols[i]]

\* The rows of right that the row at position i of left joins: the pairs
\* <<i, position in right>> for the rows of right labelled as the key of i.
JoinedRows(k, right, i) ==
    [j \in 1..Len(RowsLabelled(right, k[i])) |-> <<i, RowsLabelled(right, k[i])[j]>>]

\* The order of the rows of an inner join on the left keys k.  pandas of the
\* time of .ix and DataFrame.append gives the rows group by group, the groups
\* being the distinct keys in the order of their first occurrence on the left
\* (grouped); later pandas gives them in the order of the left rows.
JoinOrder(k, right, grouped) ==
    IF grouped
    THEN FlatMap(Where(Len(k), LAMBDA f : \A j \in 1..(f - 1) : k[j] # k[f]),
                 LAMBDA f : FlatMap(Where(Len(k), LAMBDA i : k[i] = k[f]),
                                    LAMBDA i : JoinedRows(k, right, i)))
    ELSE FlatMap(RangeIndex(Len(k)), LAMBDA i0 : JoinedRows(k, right, i0 + 1))

\* The frame of an inner join whose rows are the pairs hits.
Joined(left, right, ls, rs, hits) ==
    DataFrame(SuffixedCols(left.cols, right.cols, {}, ls)
                  \o SuffixedCols(right.cols, left.cols, {}, rs),
              [h \in 1..Len(hits) |-> left.index[hits[h][1]]],
              [h \in 1..Len(hits) |-> left.rows[hits[h][1]] \o right.rows[hits[h][2]]],
              left.crs)

\* left.merge(right, left_on=key, right_index=True, suffixes=[ls, rs]): an
\* inner join; the rows keep the labels of left.
MergeOnIndex(left, key, right, ls, rs, grouped) ==
    Joined(left, right, ls, rs, JoinOrder(GetCol(left, key), right, grouped))

\* left.merge(right, on=keys, how='outer', suffixes=[ls, rs]): the left rows,
\* each with its matches, then the right rows without a match; fresh labels.
MergeOuter(left, right, keys, ls, rs) ==
    LET lk(i) == [n \in keys |-> left.rows[i][ColsNamed(left, n)[1]]]
        rk(j) == [n \in keys |-> right.rows[j][ColsNamed(right, n)[1]]]
        rrest == Where(Len(right.cols), LAMBDA p : right.cols[p] \notin keys)
        matches(i) == Where(NRows(right), LAMBDA j : rk(j) = lk(i))
        lrows == FlatMap(RangeIndex(NRows(left)),
                    LAMBDA i0 :
                        IF matches(i0 + 1) = <<>>
                        THEN << left.rows[i0 + 1]
                                \o [p \in 1..Len(rrest) |-> NullFor(right.cols[rrest[p]])] >>
                        ELSE [m \in 1..Len(matches(i0 + 1)) |->
                                left.rows[i0 + 1]
                                \o Pick(right.rows[matches(i0 + 1)[m]], rrest)])
        lone == Where(NRows(right),
                      LAMBDA j : \A i \in 1..NRows(left) : rk(j) # lk(i))
        rrows == [m \in 1..Len(lone) |->
                    [p \in 1..Len(left.cols) |->
                        IF left.cols[p] \in keys
                        THEN rk(lone[m])[left.cols[p]]
                        ELSE NullFor(left.cols[p])]
                    \o Pick(right.rows[lone[m]], rrest)]
    IN  DataFrame(SuffixedCols(left.cols, right.cols, keys, ls)
                      \o SuffixedCols(Pick(right.cols, rrest), left.cols, keys, rs),
                  RangeIndex(Len(lrows) + Len(rrows)),
                  lrows \o rrows,
                  left.crs)

\* Python's order of strings, for the column names that occur.
ColumnOrder ==
    << "Intersection", "bbox", "geometry", "geometry_1", "geometry_2", "idx",
       "idx1", "idx2", "new_g", "sidx", "u", "u_1", "u_2", "v", "v_1", "v_1_1",
       "v_1_2", "v_2", "w", "w_1", "w_2" >>

ColumnRank(name) == CHOOSE i \in 1..Len(ColumnOrder) : ColumnOrder[i] = name

\* The names of S as a list, ascending or descending.
SortedNames(S, ascending) ==
    LET ranks == {ColumnRank(n) : n \in S}
        up == Where(Len(ColumnOrder), LAMBDA i : i \in ranks)
    IN  [k \in 1..Len(up) |->
            ColumnOrder[IF ascending THEN up[k] ELSE up[Len(up) + 1 - k]]]

\* a.append(b): the rows of a, then those of b, labels kept.  Equal column
\* lists stay as they are; otherwise the columns are the sorted union of both
\* and a cell of a column a frame lacks is null.
AppendFrames(a, b) ==
    IF a.cols = b.cols
    THEN DataFrame(a.cols, a.index \o b.index, a.rows \o b.rows, a.crs)
    ELSE LET cols == SortedNames(Range(a.cols) \cup Range(b.cols), TRUE)
             widen(df, i) ==
                 [p \in 1..Len(cols) |->
                     IF HasCol(df, cols[p])
                     THEN df.rows[i][ColsNamed(df, cols[p])[1]]
                     ELSE NullFor(cols[p])]
         IN  DataFrame(cols, a.index \o b.index,
                       [i \in 1..NRows(a) |-> widen(a, i)]
                           \o [i \in 1..NRows(b) |-> widen(b, i)],
                       a.crs)

-----------------------------------------------------------------------------
(* overlay(), lines 211-218: the private copies *)

\* df['geometry'] = df.geometry.buffer(0)
BufferAll(df) ==
    LET g == GetCol(df, "geometry")
    IN  SetCol(df, "geometry", [i \in 1..NRows(df) |-> Buffer0(g[i])])

\* df.to_crs(crs=crs, inplace=True)
ToCrs(df, crs) ==
    LET g == GetCol(df, "geometry")
    IN  [SetCol(df, "geometry", [i \in 1..NRows(df) |-> Transform(g[i], df.crs, crs)])
            EXCEPT !.crs = crs]

\* df1['bbox'] = ...bounds; df1['sidx'] = ...list(spatial_index.intersection(x))
WithCandidates(df, indexed) ==
    LET g == GetCol(df, "geometry")
        withBox == SetCol(df, "bbox", [i \in 1..NRows(df) |-> Bounds(g[i])])
    IN  SetCol(withBox, "sidx",
               [i \in 1..NRows(df) |-> SindexQuery(indexed, Bounds(g[i]))])

-----------------------------------------------------------------------------------------------------------------------------------------------------
(* overlay(), the five modes.  Each gives the private copies as the mode *)
(* leaves them (df1, df2) and the frame it returns (ret).                *)

\* Lines 224-228: the candidate pairs [label in A, position in B], by the rows
\* of A and, within a row, in the order of its sidx.
Neighbours(d1) ==
    FlatMap(RangeIndex(NRows(d1)),
            LAMBDA i0 : [k \in 1..Len(GetCol(d1, "sidx")[i0 + 1]) |->
                            <<d1.index[i0 + 1], GetCol(d1, "sidx")[i0 + 1][k]>>])

\* Lines 230-232: the pairs joined with the rows of both sides.
Pairs(nei, d1, df2, grouped) ==
    MergeOnIndex(MergeOnIndex(DataFrame(<<"idx1", "idx2">>, RangeIndex(Len(nei)), nei, d1.crs),
                              "idx1", d1, "_x", "_y", grouped),
                 "idx2", df2, "_1", "_2", grouped)

\* Line 233: the repaired intersection of each pair.
WithIntersection(pairs) ==
    SetCol(pairs, "Intersection",
           [i \in 1..NRows(pairs) |->
               GeomIntersection(GetCol(pairs, "geometry_1")[i],
                                GetCol(pairs, "geometry_2")[i])])

\* Lines 235-243: the input geometries and the scratch columns go, and the
\* intersection becomes the geometry.
Clipped(pairs) ==
    RenameCol(SelectCols(pairs,
                  Append(ListRemove(ListRemove(ListRemove(ListRemove(ListRemove(
                      pairs.cols, "geometry_1"), "geometry_2"), "sidx"), "bbox"),
                      "Intersection"), "Intersection")),
              "Intersection", "geometry")

\* Lines 229-248.  ascending: the order in which the set of column names of
\* line 248 is listed; grouped: the row order of the joins of lines 231-232.
IntersectionOf(d1, df2, nei, ascending, grouped) ==
    [df1 |-> d1, df2 |-> df2,
     ret |-> IF nei # <<>>
             THEN DropCols(DropEmpty(Clipped(WithIntersection(Pairs(nei, d1, df2, grouped)))),
                           {"idx1", "idx2"})
             ELSE DataFrame(SortedNames(Range(d1.cols) \cup Range(df2.cols), ascending),
                            <<>>, <<>>, d1.crs)]

\* how == 'intersection', lines 220-248.
Intersection(df1, df2, ascending, grouped) ==
    IntersectionOf(WithCandidates(df1, df2), df2,
                   Neighbours(WithCandidates(df1, df2)), ascending, grouped)

\* Lines 253-254: each feature of A less, one after the other, the features
\* of B at the positions of its sidx.
Erased(d1, df2) ==
    [i \in 1..NRows(d1) |->
        ReduceDifference(GetCol(d1, "geometry")[i],
                         IlocGeometry(df2, GetCol(d1, "sidx")[i]))]

\* DifferenceOf without the drop of the scratch columns.
DifferenceOfKeepsScratch(d1, df2) ==
    [df1 |-> d1, df2 |-> df2, ret |-> DropEmpty(d1)]

\* Lines 253-258: df1 with its new geometry, and the new frame without the
\* empty rows and the scratch columns.
DifferenceOf(d1, df2) ==
    [df1 |-> d1, df2 |-> df2,
     ret |-> DropCols(DropEmpty(d1), {"bbox", "sidx", "new_g"})]

\* how == 'difference', lines 250-258.
Difference(df1, df2) ==
    DifferenceOf(SetCol(SetCol(WithCandidates(df1, df2), "new_g",
                               Erased(WithCandidates(df1, df2), df2)),
                        "geometry", Erased(WithCandidates(df1, df2), df2)),
                 df2)

\* Lines 260-263: df[own] = df.index.tolist(); df[other] = np.nan
Tagged(df, own, other) ==
    SetCol(SetCol(df, own, df.index), other, [i \in 1..NRows(df) |-> NaN])

\* Lines 265-268: one geometry column, from whichever side the row has.
Combined(merged) ==
    DropCols(SetCol(merged, "geometry",
                    [i \in 1..NRows(merged) |->
                        IF ~GetCol(merged, "geometry_2")[i].isnull
                        THEN GetCol(merged, "geometry_2")[i]
                        ELSE GetCol(merged, "geometry_1")[i]]),
             {"geometry_1", "geometry_2"})

\* OtherRows without the removal: each row stays among the rows to subtract.
OtherRowsWithSelf(s) == GetCol(s, "sidx")

\* Line 273: x.sidx.remove(x.idx), row by row.
OtherRows(s) ==
    [i \in 1..NRows(s) |-> ListRemove(GetCol(s, "sidx")[i], GetCol(s, "idx")[i])]

\* Lines 274-279: each row less the rows of others, empty rows and scratch
\* columns dropped.
Subtracted(s, others) ==
    DropCols(DropEmpty(SetCol(s, "geometry",
                 [i \in 1..NRows(s) |->
                     ReduceDifference(GetCol(s, "geometry")[i],
                                      IlocGeometry(s, others[i]))])),
             {"bbox", "sidx", "idx", "idx1", "idx2", "new_g"})

\* Lines 269-279, on the combined frame.
SymmetricDifferenceOn(s0) ==
    Subtracted(SetCol(WithCandidates(s0, s0), "idx", s0.index),
               OtherRows(SetCol(WithCandidates(s0, s0), "idx", s0.index)))

\* Lines 264-279, on the tagged copies.
SymmetricDifferenceOf(d1, d2) ==
    [df1 |-> d1, df2 |-> d2,
     ret |-> SymmetricDifferenceOn(
                 Combined(MergeOuter(d1, d2, {"idx1", "idx2"}, "_1", "_2")))]

\* how == 'symmetric_difference', lines 260-279.
SymmetricDifference(df1, df2) ==
    SymmetricDifferenceOf(Tagged(df1, "idx1", "idx2"), Tagged(df2, "idx2", "idx1"))

\* how == 'union', lines 283-285, given the results of the two nested calls.
Union(dfinter, dfsym) == ResetIndex(AppendFrames(dfinter, dfsym))

\* how == 'identity', lines 288-296, given the result of the nested union.
\* The mask of line 295 has one column per selected column, and indexing by
\* it takes a row once per true cell of the row (nonzero()[0]).
Identity(dfunion, df1, df2) ==
    LET cols1 == ListRemove(df1.cols, "geometry")
        cols2 == ListRemove(df2.cols, "geometry")
        shared == Range(cols2) \cap Range(cols1)
        own == SortedNames(Range(cols1) \ shared, TRUE)
        renamed == [k \in 1..Len(SortedNames(shared, TRUE)) |->
                       SortedNames(shared, TRUE)[k] \o "_1"]
        sel == SelectCols(dfunion, own \o renamed)
        notnull(i) == Where(Len(sel.cols), LAMBDA p : sel.rows[i][p] # NaN)
    IN  TakeRows(dfunion,
                 FlatMap(RangeIndex(NRows(dfunion)),
                         LAMBDA i0 : [k \in 1..Len(notnull(i0 + 1)) |-> i0 + 1]))

-----------------------------------------------------------------------------
(* overlay_slow(): the names of the merged attribute columns *)

\* Lines 11-15: col itself, or else the first of col_2, col_3, ... not yet
\* in ucols.
RECURSIVE NewCol(_, _, _)
NewCol(col, inc, ucols) ==
    IF (IF inc = 1 THEN col ELSE col \o "_" \o ToString(inc)) \in Range(ucols)
    THEN NewCol(col, inc + 1, ucols)
    ELSE IF inc = 1 THEN col ELSE col \o "_" \o ToString(inc)

\* Lines 8-17.
_uniquify(columns) ==
    LET F[i \in 0..Len(columns)] ==
            IF i = 0 THEN <<>>
            ELSE Append(F[i - 1], NewCol(columns[i], 1, F[i - 1]))
    IN  F[Len(columns)]

-----------------------------------------------------------------------------
(* The inputs *)

\* The valid input geometries: the squares (0,0)-(2,2) and (1,1)-(3,3), which
\* overlap; the unit square in the far corner of the grid, which touches the
\* first in a corner and lies in the second; and two dominoes in the first
\* square, which overlap each other and are far from the corner square.
Polygons ==
    { Geom(Sq(0, 2), TRUE), Geom(Sq(1, 2), TRUE), Geom(Sq(GridN - 1, 1), TRUE),
      Geom(Rect(0, 0, 2, 1), TRUE), Geom(Rect(0, 0, 1, 2), TRUE) }

\* A ring that crosses itself around the square (0,0)-(2,2): invalid until
\* buffer(0) repairs it.
Bowtie == Geom(Sq(0, 2), FALSE)

\* The features of an input: up to MaxFeat valid polygons, or the bowtie.
GeomLists == UNION {[1..n -> Polygons] : n \in 1..MaxFeat} \cup {<<Bowtie>>}

\* The attribute columns of A and of B, with the geometry column last.
Schemas ==
    { << <<"v", "geometry">>, <<"v", "geometry">> >>,
      << <<"v", "w", "geometry">>, <<"u", "v", "geometry">> >> }

CrsA == "epsg:26918"
CrsOther == "epsg:4326"

\* A frame as read from a file: labels 0..n-1, and in every attribute column
\* of row i the value first + i.
InputFrame(cols, geoms, first, crs) ==
    DataFrame(cols, RangeIndex(Len(geoms)),
              [i \in 1..Len(geoms) |->
                  [p \in 1..Len(cols) |->
                      IF cols[p] = "geometry" THEN geoms[i] ELSE first + i]],
              crs)

Modes == {"intersection", "union", "identity", "symmetric_difference", "difference"}

\* The mode strings a caller passes: the five modes and an unknown one.
Hows == Modes \cup {"spandex"}

-----------------------------------------------------------------------------
(* The state *)

VARIABLES
    heap,     \* the data frames alive, by reference; 1 and 2 are the caller's
    stack,    \* the activations of overlay(), innermost last
    A, B,     \* the caller's frames as they were when overlay() was called
    call,     \* the arguments of the caller's call: how, reproject
    status,   \* "idle", "running" or "returned"
    result    \* what the caller's call returned

vars == <<heap, stack, A, B, call, status, result>>

RefA == 1
RefB == 2

Top == stack[Len(stack)]

\* CopyTarget without the copy: the name is bound to the caller's object.
CopyTargetAlias(h, r) == r

\* Where df.copy() puts the copy: a fresh object.
CopyTarget(h, r) == Len(h) + 1

Store(h, t, v) == IF t = Len(h) + 1 THEN Append(h, v) ELSE [h EXCEPT ![t] = v]

\* Lines 213-218 on the copies at t1 and t2: the repair of the geometries,
\* then the reprojection of the second copy.
Prepared(h, t1, t2, reproject) ==
    IF BufferAll(h[t1]).crs # BufferAll(h[t2]).crs /\ reproject
    THEN [h EXCEPT ![t1] = BufferAll(@),
                   ![t2] = ToCrs(BufferAll(@), BufferAll(h[t1]).crs)]
    ELSE [h EXCEPT ![t1] = BufferAll(@), ![t2] = BufferAll(@)]

\* A new activation of overlay() at line 219, its copies at t1 and t2.
Activation(how, reproject, t1, t2, base) ==
    [how |-> how, reproject |-> reproject, df1 |-> t1, df2 |-> t2,
     base |-> base, pc |-> "dispatch",
     dfinter |-> None, dfsym |-> None, dfunion |-> None]

\* Line 212 and on: df2 = df2.copy(), with df1's copy at t1 already made.
EnterSecond(h1, t1, r2, how, reproject, base) ==
    [heap |-> Prepared(Store(h1, CopyTarget(h1, r2), h1[r2]),
                       t1, CopyTarget(h1, r2), reproject),
     frame |-> Activation(how, reproject, t1, CopyTarget(h1, r2), base)]

\* Lines 211-218: overlay(df1, df2, how, reproject) is entered on the frames
\* at r1 and r2.  Gives the heap and the activation.
Enter(h, r1, r2, how, reproject) ==
    EnterSecond(Store(h, CopyTarget(h, r1), h[r1]), CopyTarget(h, r1), r2,
                how, reproject, Len(h))

Init ==
    /\ \E sch \in Schemas, ga \in GeomLists, gb \in GeomLists, crsB \in {CrsA, CrsOther} :
          /\ A = InputFrame(sch[1], ga, 0, CrsA)
          /\ B = InputFrame(sch[2], gb, 1, crsB)
    /\ heap = <<A, B>>
    /\ stack = <<>>
    /\ call = [how |-> "", reproject |-> TRUE]
    /\ status = "idle"
    /\ result = None

\* The caller: overlay(A, B, how, reproject).
Call ==
    /\ status = "idle"
    /\ \E how \in Hows, reproject \in BOOLEAN :
          /\ heap' = Enter(heap, RefA, RefB, how, reproject).heap
          /\ stack' = <<Enter(heap, RefA, RefB, how, reproject).frame>>
          /\ call' = [how |-> how, reproject |-> reproject]
    /\ status' = "running"
    /\ UNCHANGED <<A, B, result>>

AtDispatch(how) ==
    /\ stack # <<>>
    /\ Top.pc = "dispatch"
    /\ Top.how = how

\* The activation a nested call returns v to, after the assignment of v
\* (lines 281, 282 and 287).
Resume(f, v) ==
    IF f.how = "union" /\ f.pc = "dispatch"
    THEN [f EXCEPT !.dfinter = v, !.pc = "union2"]
    ELSE IF f.how = "union"
    THEN [f EXCEPT !.dfsym = v, !.pc = "union3"]
    ELSE [f EXCEPT !.dfunion = v, !.pc = "identity2"]

\* The innermost activation returns r.ret, having left its copies as r.df1
\* and r.df2: the activation goes and its private copies with it; the value
\* goes to the activation that called it, or to the caller of overlay().
Return(r) ==
    /\ heap' = SubSeq([heap EXCEPT ![Top.df1] = r.df1, ![Top.df2] = r.df2], 1, Top.base)
    /\ IF Len(stack) = 1
       THEN /\ stack' = <<>>
            /\ result' = r.ret
            /\ status' = "returned"
       ELSE /\ stack' = Append(SubSeq(stack, 1, Len(stack) - 2),
                               Resume(stack[Len(stack) - 1], r.ret))
            /\ UNCHANGED <<result, status>>
    /\ UNCHANGED <<A, B, call>>

\* The copies of the innermost activation as they are, and the value v.
Unchanged(v) == [df1 |-> heap[Top.df1], df2 |-> heap[Top.df2], ret |-> v]

\* Lines 219-248.
DoIntersection ==
    /\ AtDispatch("intersection")
    /\ \E ascending \in BOOLEAN, grouped \in BOOLEAN :
          Return(Intersection(heap[Top.df1], heap[Top.df2], ascending, grouped))

\* Lines 249-258.
DoDifference ==
    /\ AtDispatch("difference")
    /\ Return(Difference(heap[Top.df1], heap[Top.df2]))

\* Lines 259-279.
DoSymmetricDifference ==
    /\ AtDispatch("symmetric_difference")
    /\ Return(SymmetricDifference(heap[Top.df1], heap[Top.df2]))

\* A nested call overlay(df1, df2, how=how) of the innermost activation:
\* reproject takes its default.
Nested(how) ==
    /\ heap' = Enter(heap, Top.df1, Top.df2, how, TRUE).heap
    /\ stack' = Append(stack, Enter(heap, Top.df1, Top.df2, how, TRUE).frame)
    /\ UNCHANGED <<A, B, call, status, result>>

\* Line 281.
UnionCallIntersection ==
    /\ AtDispatch("union")
    /\ Nested("intersection")

\* Line 282.
UnionCallSymmetricDifference ==
    /\ stack # <<>>
    /\ Top.pc = "union2"
    /\ Nested("symmetric_difference")

\* Lines 283-285.
UnionAppend ==
    /\ stack # <<>>
    /\ Top.pc = "union3"
    /\ Return(Unchanged(Union(Top.dfinter, Top.dfsym)))

\* Line 287.
IdentityCallUnion ==
    /\ AtDispatch("identity")
    /\ Nested("union")

\* Lines 288-296.
IdentityFilter ==
    /\ stack # <<>>
    /\ Top.pc = "identity2"
    /\ Return(Unchanged(Identity(Top.dfunion, heap[Top.df1], heap[Top.df2])))

\* No branch of the if/elif chain of lines 219-286 matches: the function
\* ends without a return statement, and the call evaluates to None.
FallThrough ==
    /\ stack # <<>>
    /\ Top.pc = "dispatch"
    /\ Top.how \notin Modes
    /\ Return(Unchanged(None))

Next ==
    \/ Call
    \/ DoIntersection
    \/ DoDifference
    \/ DoSymmetricDifference
    \/ UnionCallIntersection
    \/ UnionCallSymmetricDifference
    \/ UnionAppend
    \/ IdentityCallUnion
    \/ IdentityFilter
    \/ FallThrough

Spec == Init /\ [][Next]_vars

-----------------------------------------------------------------------------
(* Properties *)

Returned == status = "returned"

\* The attribute columns of a frame: all but the geometry.
Attributes(df) == Range(df.cols) \ {"geometry"}

\* The attribute names both inputs have.
SharedAttributes == Attributes(A) \cap Attributes(B)

\* The columns overlay() adds for its own use.
Scratch == {"bbox", "sidx", "idx", "idx1", "idx2", "new_g", "Intersection"}

\* The geometries of a frame.
Geometries(df) == GetCol(df, "geometry")

\* Some bounding box of a feature of a meets one of a feature of b.
BoxesMeet(a, b) ==
    \E i \in 1..NRows(a), j \in 1..NRows(b) :
        BoxesIntersect(Bounds(Geometries(a)[i]), Bounds(Geometries(b)[j]))

\* C1: a call with a mode string that is none of the five modes ends in an
\* error instead of returning a value, and leaves A and B as they were.
C1_InvalidModeRaises ==
    (status # "idle" /\ stack = <<>> /\ call.how \notin Modes)
        => (status = "raised" /\ heap[RefA] = A /\ heap[RefB] = B)

\* C2: the frame overlay() returns is labelled 0, 1, ..., n-1 in the order of
\* its rows, in every mode.
C2_FreshIdentity ==
    (Returned /\ call.how \in Modes) => result.index = RangeIndex(NRows(result))

\* C3: the frame overlay() returns has none of the scratch columns, in every
\* mode.
C3_NoScratchColumns ==
    (Returned /\ call.how \in Modes) => Range(result.cols) \cap Scratch = {}

\* X_1 and X_2 are columns of cols, X_1 first.
SuffixedInOrder(cols, X) ==
    \E p, q \in 1..Len(cols) : p < q /\ cols[p] = X \o "_1" /\ cols[q] = X \o "_2"

\* C4: a name X that is an attribute column of both inputs gives the columns
\* X_1 and X_2, in this order, in the result of every mode that carries
\* both sides' attributes, and in the names _uniquify gives the robust engine.
C4_CollisionSuffixes ==
    (Returned /\ call.how \in Modes \ {"difference"})
        => \A X \in SharedAttributes :
              /\ SuffixedInOrder(result.cols, X)
              /\ SuffixedInOrder(_uniquify(<<X, X>>), X)

\* C5: at every point of a call of overlay(), and after it, the caller's A
\* and B are what they were before the call: rows, columns, geometries and
\* reference frame.
C5_InputsUntouched ==
    /\ heap[RefA].cols = A.cols /\ heap[RefA] = A
    /\ heap[RefB].cols = B.cols /\ heap[RefB] = B

\* A call that had a geometry to repair, the second input to reproject and
\* scratch columns to add to both copies has returned.
C5_Witness ==
    /\ Returned
    /\ call.how = "symmetric_difference"
    /\ call.reproject
    /\ A.crs # B.crs
    /\ \E i \in 1..NRows(A) : ~Geometries(A)[i].valid
    /\ \E i \in 1..NRows(B) : ~Geometries(B)[i].valid

\* C6: no row of the frame overlay() returns has an empty geometry, in every
\* mode.
C6_NoEmptyGeometry ==
    (Returned /\ call.how \in Modes)
        => \A i \in 1..NRows(result) : ~IsEmpty(Geometries(result)[i])

\* An intersection has returned rows although a candidate pair (boxes that
\* touch) had nothing in common, and a difference has returned rows although
\* a feature of A lay within one of B.
C6_Witness ==
    /\ Returned
    /\ A.crs = B.crs
    /\ NRows(result) > 0
    /\ \/ /\ call.how = "intersection"
          /\ \E i \in 1..NRows(A), j \in 1..NRows(B) :
                /\ BoxesIntersect(Bounds(Geometries(A)[i]), Bounds(Geometries(B)[j]))
                /\ Geometries(A)[i].cells \cap Geometries(B)[j].cells = {}
       \/ /\ call.how = "difference"
          /\ \E i \in 1..NRows(A), j \in 1..NRows(B) :
                Geometries(A)[i].cells \subseteq Geometries(B)[j].cells

\* The columns of the union that hold A's attributes.
ASideColumns ==
    {IF c \in SharedAttributes THEN c \o "_1" ELSE c : c \in Attributes(A)}

\* The rows of df whose A-side columns are all non-null, in order.
ASideRows(df) ==
    Pick(df.rows,
         Where(NRows(df),
               LAMBDA i : \A p \in 1..Len(df.cols) :
                             df.cols[p] \in ASideColumns => df.rows[i][p] # NaN))

\* C7: what overlay(A, B, identity) returns is, row by row, the union it has
\* computed less the rows in which an A-side column is null.
C7_IdentityIsFilteredUnion ==
    [][(status = "running" /\ status' = "returned" /\ call.how = "identity")
           => result'.rows = ASideRows(stack[1].dfunion)]_vars

\* C8: the columns of overlay(A, B, difference) are the columns of A.
C8_DifferenceSchema ==
    (Returned /\ call.how = "difference") => result.cols = A.cols

\* A difference has returned rows, B having a column that A has not.
C8_Witness ==
    /\ Returned
    /\ call.how = "difference"
    /\ Attributes(B) \ Attributes(A) # {}
    /\ NRows(result) > 0

\* B as overlay() sees it once reprojected to the frame of A.
BInFrameOfA == ToCrs(B, A.crs)

\* No bounding box of a feature of A meets one of a feature of B, in the
\* coordinates of B as given and in those of B in the frame of A.
BoxesApart == ~BoxesMeet(A, B) /\ ~BoxesMeet(A, BInFrameOfA)

\* The features of df the others leave something of: those not covered by
\* the other features of df whose bounding boxes meet their own.
Uncovered(df) ==
    {i \in 1..NRows(df) :
        ~IsEmpty(ReduceDifference(
            Geometries(df)[i],
            Pick(Geometries(df),
                 Where(NRows(df),
                       LAMBDA j : j # i /\ BoxesIntersect(Bounds(Geometries(df)[j]),
                                                           Bounds(Geometries(df)[i]))))))}

NoneCovered(df) == Uncovered(df) = 1..NRows(df)

\* C9 as claimed: if no bounding box of A meets one of B, the intersection
\* has no row and the union has len(A) + len(B) rows.
C9_DisjointBoxes ==
    (Returned /\ BoxesApart)
        => /\ call.how = "intersection" => NRows(result) = 0
           /\ call.how = "union" => NRows(result) = NRows(A) + NRows(B)

\* C9 as amended: if no bounding box of A meets one of B, the intersection
\* has no row; and the union has len(A) + len(B) rows if, besides, within
\* each input no feature is covered by the other features of that input
\* whose bounding boxes meet its own.
C9_DisjointBoxesUncovered ==
    (Returned /\ BoxesApart)
        => /\ call.how = "intersection" => NRows(result) = 0
           /\ (call.how = "union" /\ NoneCovered(A) /\ NoneCovered(B))
                  => NRows(result) = NRows(A) + NRows(B)

\* A union has returned for an A of two different features that overlap and
\* a B far from both.
C9_Witness ==
    /\ Returned
    /\ call.how = "union"
    /\ BoxesApart
    /\ NRows(A) = 2
    /\ Geometries(A)[1].cells \cap Geometries(A)[2].cells # {}
    /\ NoneCovered(A) /\ NoneCovered(B)
    /\ NRows(result) = 3

\* The inputs of the literal scenario: the square (0,0)-(2,2) with v = 1 and
\* the square (1,1)-(3,3) with v = 2.
LiteralA == InputFrame(<<"v", "geometry">>, <<Geom(Sq(0, 2), TRUE)>>, 0, CrsA)
LiteralB == InputFrame(<<"v", "geometry">>, <<Geom(Sq(1, 2), TRUE)>>, 1, CrsA)

TotalArea(df) ==
    LET F[i \in 0..NRows(df)] ==
            IF i = 0 THEN 0 ELSE F[i - 1] + Area(Geometries(df)[i])
    IN  F[NRows(df)]

\* C10: on the literal scenario the intersection is one row, the square
\* (1,1)-(2,2) of area 1 with v_1 = 1 and v_2 = 2, and the union is three
\* rows of total area 7.
C10_LiteralScenario ==
    (Returned /\ A = LiteralA /\ B = LiteralB)
        => /\ call.how = "intersection"
                => /\ result.cols = <<"v_1", "v_2", "geometry">>
                   /\ result.rows = << <<1, 2, Geom(Sq(1, 1), TRUE)>> >>
                   /\ TotalArea(result) = 1
           /\ call.how = "union"
                => /\ NRows(result) = 3
                   /\ TotalArea(result) = 7

\* Both calls of the literal scenario have an outcome.
C10_Witness ==
    /\ Returned
    /\ A = LiteralA /\ B = LiteralB
    /\ call.how = "union"
    /\ NRows(result) = 3

\* The labels of df ascend strictly.  The label of a row of an intersection
\* is the number of its candidate pair, and the pairs are numbered by the
\* order of A and, within a feature of A, by the order B's index gave.
LabelsAscend(df) ==
    \A i, j \in 1..NRows(df) : i < j => df.index[i] < df.index[j]

\* C14: the rows of overlay(A, B, intersection) come by the order of A's
\* features and, for one feature of A, by the order in which B's index gave
\* the features of B; the drop of the empty pairs does not reorder them.
C14_IntersectionOrder ==
    (Returned /\ call.how = "intersection") => LabelsAscend(result)

\* The private copy of B of every activation of overlay() is in the
\* reference frame of B, with the coordinates of B.
CopiesOfBNotReprojected ==
    \A k \in 1..Len(stack) :
        /\ heap[stack[k].df2].crs = B.crs
        /\ \A i \in 1..NRows(B) :
              Geometries(heap[stack[k].df2])[i].cells = Geometries(B)[i].cells

\* C15: in a call with reproject = False on inputs of different reference
\* frames no private copy of B is reprojected at any point, in every mode,
\* the nested calls of union and identity included.
C15_NoReprojection ==
    (status = "running" /\ ~call.reproject /\ A.crs # B.crs /\ call.how \in Modes)
        => CopiesOfBNotReprojected

-----------------------------------------------------------------------------
(* Column names that already end in a suffix *)

\* The columns of A and of B when a name of A is a name of B with the suffix
\* of the left side.
SuffixSchema == << <<"v", "v_1", "geometry">>, <<"v", "geometry">> >>

\* overlay() on inputs of one feature each with the columns of SuffixSchema.
InitNames ==
    /\ \E ga \in Polygons, gb \in Polygons, crsB \in {CrsA, CrsOther} :
          /\ A = InputFrame(SuffixSchema[1], <<ga>>, 0, CrsA)
          /\ B = InputFrame(SuffixSchema[2], <<gb>>, 1, crsB)
    /\ heap = <<A, B>>
    /\ stack = <<>>
    /\ call = [how |-> "", reproject |-> TRUE]
    /\ status = "idle"
    /\ result = None

SpecNames == InitNames /\ [][Next]_vars

\* No two elements of the list s are equal.
Distinct(s) == \A i, j \in 1..Len(s) : i # j => s[i] # s[j]

\* The attribute columns of a frame in order, the geometry left out.
AttributeList(df) == ListRemove(df.cols, "geometry")

\* C16: for inputs whose column names are pairwise distinct, names that end
\* in _1 or _2 included, the columns of the result of every mode are pairwise
\* distinct, and so are the names _uniquify gives the robust engine, which
\* are as many as the attribute columns of both inputs.
C16_DistinctColumns ==
    (Returned /\ call.how \in Modes)
        => /\ Distinct(result.cols)
           /\ Distinct(_uniquify(AttributeList(A) \o AttributeList(B)))
           /\ Len(_uniquify(AttributeList(A) \o AttributeList(B)))
                  = Len(AttributeList(A)) + Len(AttributeList(B))

-----------------------------------------------------------------------------
(* overlay_slow(): rings, noding and faces on the grid *)

\* A geometry that is no polygon: a point, which covers no cell.
Point == [cells |-> {}, valid |-> TRUE, isnull |-> FALSE, type |-> "Point"]

\* The cells of the grid, and the four cells next to a cell (which may lie
\* outside the grid).
GridCells == Rect(0, 0, GridN, GridN)

Adjacent(c) ==
    { <<c[1] + 1, c[2]>>, <<c[1] - 1, c[2]>>, <<c[1], c[2] + 1>>, <<c[1], c[2] - 1>> }

\* The cells reached from the cells S by steps between adjacent cells of the
\* grid that cross no edge of lines; an edge is the pair of cells it parts.
RECURSIVE Grow(_, _)
Grow(S, lines) ==
    LET T == S \cup {d \in GridCells : \E c \in S : d \in Adjacent(c) /\ {c, d} \notin lines}
    IN  IF T = S THEN S ELSE Grow(T, lines)

\* geom.type: a geometry with cells is a Polygon if its cells hang together
\* and a MultiPolygon if not.
GeomType(g) ==
    IF "type" \in DOMAIN g THEN g.type
    ELSE IF g.cells = {} \/ Grow({CHOOSE c \in g.cells : TRUE},
                                 {{c, d} : c \in GridCells \ g.cells, d \in g.cells}) = g.cells
    THEN "Polygon" ELSE "MultiPolygon"

\* Line 39 without the test: every geometry passes.
IsPolygonalAny(g) == TRUE

\* Line 39: geom.type in ['Polygon', 'MultiPolygon']
IsPolygonal(g) == GeomType(g) \in {"Polygon", "MultiPolygon"}

\* Line 32.
poly_msg == "overlay only takes GeoDataFrames with (multi)polygon geometries"

\* The exterior and the interiors of all parts of a polygon (lines 42-54),
\* repaired first if it is not valid: the unit edges between a cell of the
\* polygon and a cell outside it.
RingsOf(g) ==
    UNION {{{c, d} : d \in Adjacent(c) \ (IF ~g.valid THEN Buffer0(g) ELSE g).cells}
              : c \in (IF ~g.valid THEN Buffer0(g) ELSE g).cells}

\* Lines 36-54 from the feature at position i on, rings being the rings
\* collected so far: the loop ends at the first geometry that is no polygon.
RECURSIVE ExtractFrom(_, _, _)
ExtractFrom(geoms, i, rings) ==
    IF i > Len(geoms) THEN [raised |-> FALSE, rings |-> rings]
    ELSE IF ~IsPolygonal(geoms[i]) THEN [raised |-> TRUE, rings |-> rings]
    ELSE ExtractFrom(geoms, i + 1, Append(rings, RingsOf(geoms[i])))

\* Lines 20-56.
_extract_rings(df) == ExtractFrom(GetCol(df, "geometry"), 1, <<>>)

\* MultiLineString(rings), lines 100-101.
MultiLineString(rings) == UNION Range(rings)

\* Noding without the retry: a failure of unary_union is the failure of the
\* step.
NodingWithoutRetry(mls1, mls2, fastOk, slowOk) ==
    IF fastOk
    THEN [calls |-> << <<"unary_union", TRUE>> >>, raised |-> FALSE, mm |-> mls1 \cup mls2]
    ELSE [calls |-> << <<"unary_union", FALSE>> >>, raised |-> TRUE, mm |-> {}]

\* Lines 104-111: unary_union([mls1, mls2]) and, if it raises, mls1.union(mls2)
\* outside the try.  fastOk and slowOk: whether the kernel succeeds in the one
\* and in the other.  calls: the kernel calls made, each with its outcome.
Noding(mls1, mls2, fastOk, slowOk) ==
    IF fastOk
    THEN [calls |-> << <<"unary_union", TRUE>> >>, raised |-> FALSE, mm |-> mls1 \cup mls2]
    ELSE IF slowOk
    THEN [calls |-> << <<"unary_union", FALSE>>, <<"union", TRUE>> >>,
          raised |-> FALSE, mm |-> mls1 \cup mls2]
    ELSE [calls |-> << <<"unary_union", FALSE>>, <<"union", FALSE>> >>,
          raised |-> TRUE, mm |-> {}]

\* The cell number k of the grid, k = 1 .. GridN * GridN.
CellAt(k) == <<(k - 1) \div GridN, (k - 1) % GridN>>

\* The lines mm close the cells S in: no step leads from S out of the grid.
Enclosed(S, mm) ==
    \A c \in S : \A d \in Adjacent(c) \ GridCells : {c, d} \in mm

\* polygonize(mm), line 112: the bounded faces of the arrangement, holes and
\* enclosed gaps as well, each once, by their first cell.
polygonize(mm) ==
    Pick([k \in 1..(GridN * GridN) |-> Geom(Grow({CellAt(k)}, mm), TRUE)],
         Where(GridN * GridN,
               LAMBDA k : /\ \A j \in 1..(k - 1) : CellAt(j) \notin Grow({CellAt(k)}, mm)
                          /\ Enclosed(Grow({CellAt(k)}, mm), mm)))

\* newpoly.representative_point(), line 117: a point within the face.
RepresentativePoint(newpoly) == CHOOSE c \in newpoly.cells : TRUE

\* Lines 122-132: the labels of the features to test, from the spatial index
\* by the bounds of the face, or all of them.
Candidates(df, newpoly, use_sindex) ==
    IF use_sindex THEN SindexQuery(df, Bounds(newpoly)) ELSE df.index

\* Lines 138-149: the positions in df of the candidates that the point lies
\* in, in the order of the candidates; the first one is the hit.
Hits(df, cands, cent) ==
    FlatMap(cands,
            LAMBDA id : IF cent \in GetCol(df, "geometry")[RowsLabelled(df, id)[1]].cells
                        THEN <<RowsLabelled(df, id)[1]>> ELSE <<>>)

\* Lines 152-162.
Hit(how, df1_hit, df2_hit) ==
    IF how = "intersection" /\ (df1_hit /\ df2_hit) THEN TRUE
    ELSE IF how = "union" /\ (df1_hit \/ df2_hit) THEN TRUE
    ELSE IF how = "identity" /\ df1_hit THEN TRUE
    ELSE IF how = "symmetric_difference" /\ ~(df1_hit /\ df2_hit) THEN TRUE
    ELSE IF how = "difference" /\ (df1_hit /\ ~df2_hit) THEN TRUE
    ELSE FALSE

\* Lines 168-175, one side: the attributes of the feature hit, or nulls.
Props(df, hits) ==
    IF hits = <<>>
    THEN [p \in 1..(Len(df.cols) - 1) |-> NaN]
    ELSE Pick(df.rows[hits[1]], Where(Len(df.cols), LAMBDA p : df.cols[p] # "geometry"))

\* Lines 134-181 for one face, given the hits of both sides: the collection
\* with the row of the face, if the mode keeps it.
Collected(collection, how, df1, df2, hits1, hits2, newpoly) ==
    IF Hit(how, hits1 # <<>>, hits2 # <<>>)
    THEN Append(collection, Append(Props(df1, hits1) \o Props(df2, hits2), newpoly))
    ELSE collection

\* Line 184: GeoDataFrame(collection, index=range(len(collection))); the
\* columns are those of the rows, named by line 177.
SlowResult(collection, df1, df2) ==
    DataFrame(IF collection = <<>> THEN <<>>
              ELSE Append(_uniquify(ListRemove(df1.cols, "geometry")
                                        \o ListRemove(df2.cols, "geometry")),
                          "geometry"),
              RangeIndex(Len(collection)), collection, "")

-----------------------------------------------------------------------------
(* overlay_slow() as a state machine *)

\* The square (0,0)-(3,3) with the hole (1,1)-(2,2).
Annulus == Geom(Rect(0, 0, 3, 3) \ {<<1, 1>>}, TRUE)

\* A polygon of two parts: the unit squares at (0,0) and at (2,2).
TwoParts == Geom({<<0, 0>>, <<2, 2>>}, TRUE)

\* The geometries of the inputs of overlay_slow(): a square, the annulus,
\* which overlaps it and has it over its hole, a polygon of two parts, and
\* a point.
SlowShapes == {Geom(Sq(0, 2), TRUE), Annulus, TwoParts, Point}

SlowGeomLists == UNION {[1..n -> SlowShapes] : n \in 1..MaxFeat}

\* Line 82.
allowed_hows == {"intersection", "union", "identity", "symmetric_difference", "difference"}

\* An exception as the caller of overlay_slow() gets it.
Exception(type, msg) == [py |-> type, msg |-> msg]

\* The activation of overlay_slow() at line 90.
SlowActivation(how, use_sindex) ==
    [how |-> how, use_sindex |-> use_sindex, pc |-> "validate",
     rings1 |-> <<>>, rings2 |-> <<>>, kernel |-> <<>>, mm |-> {},
     newpolys |-> <<>>, fid |-> 0, collection |-> <<>>]

InitSlow ==
    /\ \E ga \in SlowGeomLists, gb \in SlowGeomLists :
          /\ A = InputFrame(<<"v", "geometry">>, ga, 0, CrsA)
          /\ B = InputFrame(<<"v", "geometry">>, gb, 1, CrsA)
    /\ heap = <<A, B>>
    /\ stack = <<>>
    /\ call = [how |-> "", use_sindex |-> TRUE]
    /\ status = "idle"
    /\ result = None

\* The caller: overlay_slow(A, B, how, use_sindex).
CallSlow ==
    /\ status = "idle"
    /\ \E how \in Hows, use_sindex \in BOOLEAN :
          /\ stack' = <<SlowActivation(how, use_sindex)>>
          /\ call' = [how |-> how, use_sindex |-> use_sindex]
    /\ status' = "running"
    /\ UNCHANGED <<heap, A, B, result>>

AtSlow(pc) == stack # <<>> /\ Top.pc = pc

\* The activation goes on as f.
Goto(f) ==
    /\ stack' = <<f>>
    /\ UNCHANGED <<heap, A, B, call, status, result>>

\* The exception e leaves overlay_slow(): the activation ends where it is.
Raise(e) ==
    /\ stack' = <<[Top EXCEPT !.pc = "raised"]>>
    /\ status' = "raised"
    /\ result' = e
    /\ UNCHANGED <<heap, A, B, call>>

\* Lines 90-92.
Validate ==
    /\ AtSlow("validate")
    /\ IF Top.how \notin allowed_hows
       THEN Raise(Exception("ValueError", "how is expected to be in allowed_hows"))
       ELSE Goto([Top EXCEPT !.pc = "rings1"])

\* Line 98.
ExtractRings1 ==
    /\ AtSlow("rings1")
    /\ IF _extract_rings(heap[RefA]).raised
       THEN Raise(Exception("TypeError", poly_msg))
       ELSE Goto([Top EXCEPT !.rings1 = _extract_rings(heap[RefA]).rings, !.pc = "rings2"])

\* Line 99.
ExtractRings2 ==
    /\ AtSlow("rings2")
    /\ IF _extract_rings(heap[RefB]).raised
       THEN Raise(Exception("TypeError", poly_msg))
       ELSE Goto([Top EXCEPT !.rings2 = _extract_rings(heap[RefB]).rings, !.pc = "noding"])

\* The activation after the noding step gave n.
Noded(f, n) ==
    [f EXCEPT !.kernel = n.calls, !.mm = n.mm,
              !.pc = IF n.raised THEN "raised" ELSE "polygonize"]

\* Lines 100-111; the kernel succeeds or fails in each of its calls.
DoNoding ==
    /\ AtSlow("noding")
    /\ \E fastOk \in BOOLEAN, slowOk \in BOOLEAN :
          /\ stack' = <<Noded(Top, Noding(MultiLineString(Top.rings1),
                                          MultiLineString(Top.rings2), fastOk, slowOk))>>
          /\ IF Noding(MultiLineString(Top.rings1), MultiLineString(Top.rings2),
                       fastOk, slowOk).raised
             THEN /\ status' = "raised"
                  /\ result' = Exception("KernelError", "union")
             ELSE UNCHANGED <<status, result>>
    /\ UNCHANGED <<heap, A, B, call>>

\* Line 112.
DoPolygonize ==
    /\ AtSlow("polygonize")
    /\ Goto([Top EXCEPT !.newpolys = polygonize(Top.mm), !.fid = 1, !.pc = "faces"])

\* Lines 116-181, for the face number fid.
ClassifyFace ==
    /\ AtSlow("faces")
    /\ Top.fid <= Len(Top.newpolys)
    /\ Goto([Top EXCEPT
              !.collection =
                  Collected(@, Top.how, heap[RefA], heap[RefB],
                            Hits(heap[RefA],
                                 Candidates(heap[RefA], Top.newpolys[Top.fid], Top.use_sindex),
                                 RepresentativePoint(Top.newpolys[Top.fid])),
                            Hits(heap[RefB],
                                 Candidates(heap[RefB], Top.newpolys[Top.fid], Top.use_sindex),
                                 RepresentativePoint(Top.newpolys[Top.fid])),
                            Top.newpolys[Top.fid]),
              !.fid = @ + 1])

\* Line 184.
ReturnSlow ==
    /\ AtSlow("faces")
    /\ Top.fid > Len(Top.newpolys)
    /\ stack' = <<[Top EXCEPT !.pc = "returned"]>>
    /\ status' = "returned"
    /\ result' = SlowResult(Top.collection, heap[RefA], heap[RefB])
    /\ UNCHANGED <<heap, A, B, call>>

NextSlow ==
    \/ CallSlow
    \/ Validate
    \/ ExtractRings1
    \/ ExtractRings2
    \/ DoNoding
    \/ DoPolygonize
    \/ ClassifyFace
    \/ ReturnSlow

SpecSlow == InitSlow /\ [][NextSlow]_vars

-----------------------------------------------------------------------------
(* Properties of overlay_slow() *)

\* The face f lies in a feature of df.
ContainedIn(df, f) ==
    \E i \in 1..NRows(df) : f.cells \subseteq Geometries(df)[i].cells

\* The predicate of a mode on (hitInA, hitInB).
ModeKeeps(how, hitInA, hitInB) ==
    CASE how = "union" -> hitInA \/ hitInB
      [] how = "intersection" -> hitInA /\ hitInB
      [] how = "identity" -> hitInA
      [] how = "symmetric_difference" -> hitInA # hitInB
      [] how = "difference" -> hitInA /\ ~hitInB

\* The face f is the geometry of a row of the result.
Emitted(f) == NRows(result) > 0 /\ f \in Range(Geometries(result))

\* C11: when overlay_slow() has returned, a face polygonize produced is in
\* the result if and only if the pair (in a feature of A, in a feature of B)
\* satisfies the predicate of the mode; a face in neither input is in the
\* result of no mode.
C11_FaceClassification ==
    Returned
        => \A k \in 1..Len(Top.newpolys) :
              /\ Emitted(Top.newpolys[k])
                    <=> ModeKeeps(call.how, ContainedIn(A, Top.newpolys[k]),
                                  ContainedIn(B, Top.newpolys[k]))
              /\ (~ContainedIn(A, Top.newpolys[k]) /\ ~ContainedIn(B, Top.newpolys[k]))
                    => ~Emitted(Top.newpolys[k])

\* Some feature of df is no polygon and no multipolygon.
NonPolygonal(df) ==
    \E i \in 1..NRows(df) : GeomType(Geometries(df)[i]) \notin {"Polygon", "MultiPolygon"}

\* The call of overlay_slow() has not got to the union of the rings, and if
\* it has ended, it has ended in the TypeError of line 40.
StopsAtTypeError ==
    /\ status # "returned"
    /\ status = "raised" => result = Exception("TypeError", poly_msg)
    /\ stack # <<>> => /\ Top.pc \in {"validate", "rings1", "rings2", "raised"}
                       /\ Top.kernel = <<>>
                       /\ Top.newpolys = <<>>

C13_NodingFallback ==
    (stack # <<>> /\ Top.kernel # <<>>)
        => /\ Top.kernel[1][1] = "unary_union"
           /\ Len(Top.kernel) <= 2
           /\ Len(Top.kernel) = 2 <=> ~Top.kernel[1][2]
           /\ Len(Top.kernel) = 2 => Top.kernel[2][1] = "union"
           /\ Top.kernel[Len(Top.kernel)][2]
                 => /\ status # "raised"
                    /\ Top.mm = MultiLineString(Top.rings1) \cup MultiLineString(Top.rings2)
                    /\ Top.pc # "polygonize" => Top.newpolys = polygonize(Top.mm)
                    /\ Returned => NRows(result) = Len(Top.collection)
           /\ ~Top.kernel[Len(Top.kernel)][2]
                 => /\ status = "raised"
                    /\ result = Exception("KernelError", "union")
                    /\ Top.newpolys = <<>>

\* A call in which the fast union failed and the pairwise union succeeded
\* has returned rows.
C13_Witness ==
    /\ Returned
    /\ stack # <<>>
    /\ Top.kernel = << <<"unary_union", FALSE>>, <<"union", TRUE>> >>
    /\ NRows(result) > 0

====
